---- MODULE Spec2Model ----
(***************************************************************************)
(* A state-machine model of the Spleeter separation service.               *)
(*                                                                         *)
(* Two programs are modelled: app.py (workspaces under TEMP_DIR, synchro-  *)
(* nous removal on errors, deferred cleanup_file after delivery, startup   *)
(* sweep) and api.py (tempfile.TemporaryDirectory around the whole job).   *)
(* The variable impl says which of the two programs a behaviour runs.      *)
(*                                                                         *)
(* Both run one asyncio event loop: a coroutine keeps the loop from one    *)
(* await to the next.  The variable running names the request whose        *)
(* handler holds the loop inside its synchronous section (0: loop free).   *)
(***************************************************************************)
EXTENDS Integers, Sequences, FiniteSets, TLC

(* ---------------------------------------------------------------- bounds *)

\* Number of /separate requests a behaviour may hold.
NumJobs == 2

\* The requests, numbered in the order they arrive.
Jobs == 1..NumJobs

\* Identifiers a workspace may get.  An identifier is an opaque random
\* token: which one a job gets does not matter, only whether two are equal.
Ids == 1..NumJobs

\* Names of entries that may lie under TEMP_DIR when the process starts.
Leftovers == {"L1", "L2"}

(* ------------------------------------------------------------- constants *)

ALLOWED_EXTENSIONS ==
    { <<"m","p","3">>, <<"w","a","v">>, <<"f","l","a","c">>,
      <<"m","4","a">>, <<"o","g","g">> }

MAX_FILE_SIZE == 25 * 1024 * 1024

\* app.py: time.time() - item.stat().st_mtime > 3600
SweepMaxAge == 3600

\* The stems values separate_audio accepts.
AllowedStems == {2, 4, 5}

(* --------------------------------------------------------------- strings *)
\* A string is a sequence of one-character strings.

\* str.lower() on the characters the model uses.
LowerChar(c) ==
    CASE c = "W" -> "w"
      [] c = "A" -> "a"
      [] c = "V" -> "v"
      [] c = "M" -> "m"
      [] c = "P" -> "p"
      [] OTHER   -> c

Lower(s) == [i \in 1..Len(s) |-> LowerChar(s[i])]

\* Positions of "." in s.
DotPositions(s) == {i \in 1..Len(s) : s[i] = "."}

Max(S) == CHOOSE m \in S : \A x \in S : x <= m

\* s.split('.')[-1]: the text after the last dot, the whole of s without one.
LastDotPart(s) ==
    IF DotPositions(s) = {} THEN s
    ELSE SubSeq(s, Max(DotPositions(s)) + 1, Len(s))

\* s.endswith(t)
EndsWith(s, t) ==
    /\ Len(s) >= Len(t)
    /\ SubSeq(s, Len(s) - Len(t) + 1, Len(s)) = t

(* ----------------------------------------------------------------- paths *)
\* The upload's filename is joined to paths as it comes: it may hold "/".

\* Positions of "/" in s.
SlashPositions(s) == {i \in 1..Len(s) : s[i] = "/"}

Min(S) == CHOOSE m \in S : \A x \in S : m <= x

\* s.split('/')
RECURSIVE SplitPath(_)
SplitPath(s) ==
    IF SlashPositions(s) = {} THEN <<s>>
    ELSE <<SubSeq(s, 1, Min(SlashPositions(s)) - 1)>>
         \o SplitPath(SubSeq(s, Min(SlashPositions(s)) + 1, Len(s)))

IsNamePart(c) == c # <<>> /\ c # <<".">>

\* PurePath(s).parts without the root: pathlib drops empty and "." parts
\* and keeps ".." parts.
PathParts(s) == SelectSeq(SplitPath(s), IsNamePart)

\* PurePath(s).is_absolute()
IsAbsolute(s) == Len(s) > 0 /\ s[1] = "/"

\* PurePath(s).name
PathName(s) ==
    IF PathParts(s) = <<>> THEN <<>> ELSE PathParts(s)[Len(PathParts(s))]

\* PurePath(s).stem: the name without its suffix; the suffix starts at the
\* last dot of the name when that dot is neither its first nor its last
\* character.
PathStem(s) ==
    LET name == PathName(s)
        dots == DotPositions(name)
    IN  IF dots # {} /\ Max(dots) > 1 /\ Max(dots) < Len(name)
        THEN SubSeq(name, 1, Max(dots) - 1)
        ELSE name

ParentPart == <<".", ".">>

\* The place open(temp_dir / filename) names, as the operating system walks
\* it from a fresh workspace: abs for a path from the root, up for the
\* number of directories above the workspace the path climbs to, parts for
\* the names below that directory, missing when the path goes through a
\* directory that the fresh workspace does not have.
InWorkspace == [abs |-> FALSE, up |-> 0, parts |-> <<>>, missing |-> FALSE]

RECURSIVE WalkPath(_, _)
WalkPath(loc, parts) ==
    IF parts = <<>> THEN loc
    ELSE IF Head(parts) # ParentPart
    THEN WalkPath([loc EXCEPT !.parts = Append(@, Head(parts))], Tail(parts))
    ELSE IF loc.parts # <<>>
    THEN WalkPath([loc EXCEPT !.parts = SubSeq(@, 1, Len(@) - 1),
                              !.missing = @ \/ (~loc.abs /\ loc.up = 0)],
                  Tail(parts))
    ELSE IF loc.abs THEN WalkPath(loc, Tail(parts))
    ELSE WalkPath([loc EXCEPT !.up = @ + 1], Tail(parts))

\* input_path = temp_dir / audio.filename: an absolute filename replaces
\* temp_dir.
InputPath(filename) ==
    WalkPath([InWorkspace EXCEPT !.abs = IsAbsolute(filename)],
             PathParts(filename))

\* Whether a place lies inside the job's workspace directory.
Inside(loc) == ~loc.abs /\ loc.up = 0 /\ loc.parts # <<>>

\* Whether open(input_path, 'wb') can make the file: the path names no
\* directory, goes through no missing directory, and its parent exists (a
\* fresh workspace has no subdirectory; directories above it are there).
CanCreate(loc) ==
    /\ loc.parts # <<>>
    /\ ~loc.missing
    /\ (~loc.abs /\ loc.up = 0) => Len(loc.parts) = 1

(* ------------------------------------------------------------ validation *)

\* validate_audio_file: 0 when the file passes, else the HTTP status raised.
validate_audio_file(filename) ==
    IF Len(filename) = 0 THEN 400
    ELSE IF Lower(LastDotPart(filename)) \notin ALLOWED_EXTENSIONS THEN 400
    ELSE 0

\* A handler that does not check the stems value.
StemsStatus_Ignored(stems) == 0

\* if stems not in [2, 4, 5]: raise HTTPException(400)
StemsStatus(stems) == IF stems \notin AllowedStems THEN 400 ELSE 0

\* A size check off by one: rejects a payload of exactly MAX_FILE_SIZE.
SizeStatus_AtLeast(size) == IF size >= MAX_FILE_SIZE THEN 413 ELSE 0

\* if len(contents) > MAX_FILE_SIZE: raise HTTPException(413)
SizeStatus(size) == IF size > MAX_FILE_SIZE THEN 413 ELSE 0

(* ---------------------------------------------------------------- inputs *)

\* Upload filenames a client may send.
FileNames ==
    { <<>>,
      <<"a",".","b",".","W","a","V">>,
      <<"m","p","3">>,
      <<"a">>,
      <<"a",".">>,
      <<"a",".","t","x","t">>,
      <<".",".",".","w","a","v">>,
      <<".",".","/","a",".","w","a","v">>,
      <<"x","/","a",".","w","a","v">> }

\* Values of the stems form field (0 stands for a value outside 2, 4, 5).
StemsValues == {0, 2, 3, 4, 5}

\* Payload sizes in bytes.
Sizes == {0, MAX_FILE_SIZE - 1, MAX_FILE_SIZE, MAX_FILE_SIZE + 1}

\* A file the tool may write under an output subdirectory: the directories
\* below the subdirectory, then the file's name.
vWav == [sub |-> <<>>, name |-> <<"v",".","w","a","v">>]
nTxt == [sub |-> <<>>, name |-> <<"n",".","t","x","t">>]
dWAV == [sub |-> <<"s">>, name |-> <<"d",".","W","A","V">>]

\* Subdirectories of output/: "base" is the one named after the input's base
\* name, "x" and "y" carry other names.
DirNames == {"base", "x", "y"}

NoDir == [present |-> FALSE, files |-> {}]
Dir(fs) == [present |-> TRUE, files |-> fs]

EmptyTree == [d \in DirNames |-> NoDir]

\* A tree with the given subdirectories.
Tree(b, x, y) == [d \in DirNames |->
                    IF d = "base" THEN b ELSE IF d = "x" THEN x ELSE y]

\* The trees the tool may leave under output/ when it exits with status 0:
\* the expected directory alone or beside another, no directory, one
\* directory of another name, two directories of other names.
ToolOutputs ==
    {Tree(b, NoDir, NoDir) : b \in {Dir({vWav}), Dir({nTxt}), Dir({dWAV, nTxt})}}
    \cup {Tree(Dir({vWav}), Dir({nTxt}), NoDir)}
    \cup {EmptyTree}
    \cup {Tree(NoDir, x, y) : x \in {Dir({vWav}), Dir({nTxt})},
                              y \in {NoDir, Dir({vWav})}}

\* What a tool that failed or was killed may leave behind.
PartialOutputs == {EmptyTree, [EmptyTree EXCEPT !["base"] = Dir({vWav})]}

(* ----------------------------------------------------------------- state *)

VARIABLES
    impl,        \* "app" or "api": the program this behaviour runs
    phase,       \* "startup" (the startup event runs) or "serving"
    left,        \* the entries found under TEMP_DIR at process start
    visited,     \* the entries startup_cleanup's loop has been through
    tempDir,     \* whether TEMP_DIR itself exists
    running,     \* the request whose handler holds the event loop, or 0
    job,         \* per request: the handler's position and local variables
    ws,          \* per identifier: the workspace directory of that name
    used,        \* identifiers generated so far
    outside      \* the places outside every workspace where handlers made files

vars == <<impl, phase, left, visited, tempDir, running, job, ws, used, outside>>

\* stuck: shutil.rmtree of the entry raises (a protected or busy tree).
NoEntry == [kind |-> "none", age |-> 0, stuck |-> FALSE]

NoZip == [present |-> FALSE, entries |-> {}]

\* A workspace directory that does not exist.
NoWs == [exists |-> FALSE, input |-> FALSE, output |-> FALSE,
         tree |-> EmptyTree, zip |-> NoZip]

\* A workspace directory just made, empty.
NewWs == [NoWs EXCEPT !.exists = TRUE]

\* No payload: none has come yet, or the handler is past the size check.
NoSize == 0 - 1

\* removals counts the shutil.rmtree calls made for the job's workspace,
\* tasks the cleanup_file tasks created for it.  detail says which detail the
\* HTTPException being raised carries: "name" (no filename, or file type
\* not allowed), "stems", "size", "tool" (Spleeter processing failed,
\* with the tool's stderr), "tracks" (No output tracks found), "audio" (No
\* audio files found), "zip" (Failed to create zip file), "timeout", "error"
\* (str(e) of another exception); "server" is the server's own answer to an
\* exception that is no HTTPException.
IdleJob ==
    [pc |-> "idle", filename |-> <<>>, wsid |-> 0, exc |-> "none",
     status |-> 0, rc |-> -1, track |-> "none", audio |-> {},
     sent |-> "no", escaped |-> FALSE, child |-> "none", task |-> "none",
     size |-> NoSize, removals |-> 0, tasks |-> 0, detail |-> "none"]

OldDir   == [kind |-> "dir",  age |-> SweepMaxAge + 1, stuck |-> FALSE]
StuckDir == [kind |-> "dir",  age |-> SweepMaxAge + 1, stuck |-> TRUE]
YoungDir == [kind |-> "dir",  age |-> SweepMaxAge,     stuck |-> FALSE]
OldFile  == [kind |-> "file", age |-> SweepMaxAge + 1, stuck |-> FALSE]

\* What a previous process may have left under TEMP_DIR: an old directory
\* that cannot be removed beside an old one that can, or a directory of
\* exactly the threshold age beside an old plain file.
StartListings ==
    { [e \in Leftovers |-> IF e = "L1" THEN StuckDir ELSE OldDir],
      [e \in Leftovers |-> IF e = "L1" THEN YoungDir ELSE OldFile] }

Init ==
    /\ impl \in {"app", "api"}
    /\ phase = IF impl = "app" THEN "startup" ELSE "serving"
    /\ left \in (IF impl = "app" THEN StartListings
                  ELSE {[e \in Leftovers |-> NoEntry]})
    /\ visited = {}
    /\ tempDir = TRUE
    /\ running = 0
    /\ job = [j \in Jobs |-> IdleJob]
    /\ ws = [u \in Ids |-> NoWs]
    /\ used = {}
    /\ outside = {}

(* --------------------------------------------------------- startup sweep *)

\* if item.is_dir() and time.time() - item.stat().st_mtime > 3600
SweepWants(entry) == entry.kind = "dir" /\ entry.age > SweepMaxAge

\* One iteration of the loop on an entry the sweep removes.
SweepDelete(e) ==
    /\ phase = "startup"
    /\ e \notin visited
    /\ left[e].kind # "none"
    /\ SweepWants(left[e])
    /\ ~left[e].stuck
    /\ left' = [left EXCEPT ![e] = NoEntry]
    /\ visited' = visited \cup {e}
    /\ UNCHANGED <<impl, phase, tempDir, running, job, ws, used, outside>>

\* One iteration of the loop on an entry the sweep leaves alone.
SweepSkip(e) ==
    /\ phase = "startup"
    /\ e \notin visited
    /\ left[e].kind # "none"
    /\ ~SweepWants(left[e])
    /\ visited' = visited \cup {e}
    /\ UNCHANGED <<impl, phase, left, tempDir, running, job, ws, used, outside>>

\* shutil.rmtree(item) raises: the except around the whole loop ends the
\* sweep, the entries not yet visited stay as they are.
SweepFail(e) ==
    /\ phase = "startup"
    /\ e \notin visited
    /\ left[e].kind # "none"
    /\ SweepWants(left[e])
    /\ left[e].stuck
    /\ phase' = "serving"
    /\ visited' = {}
    /\ UNCHANGED <<impl, left, tempDir, running, job, ws, used, outside>>

\* The loop has been through every entry: the startup event is over.
SweepEnd ==
    /\ phase = "startup"
    /\ \A e \in Leftovers : left[e].kind # "none" => e \in visited
    /\ phase' = "serving"
    /\ visited' = {}
    /\ UNCHANGED <<impl, left, tempDir, running, job, ws, used, outside>>

startup_cleanup ==
    \/ \E e \in Leftovers : SweepDelete(e)
    \/ \E e \in Leftovers : SweepSkip(e)
    \/ \E e \in Leftovers : SweepFail(e)
    \/ SweepEnd

(* ------------------------------------------------------ request handling *)

\* Job j's record with the fields of r changed.
Set(j, r) == [job EXCEPT ![j] = [f \in DOMAIN job[j] |->
                 IF f \in DOMAIN r THEN r[f] ELSE job[j][f]]]

\* The handler's frame is gone once the request is over: the record keeps
\* what was answered and what was left on disk, not the locals.
Ended == [pc |-> "done", filename |-> <<>>, rc |-> -1, track |-> "none",
          audio |-> {}]

\* The handler returned its response: the frame is gone, the response is
\* still to be sent.
Returned == [Ended EXCEPT !.pc = "respond"]

\* except Exception as e: raise HTTPException(status, detail=str(e)).
Raise(j, status) ==
    /\ job' = Set(j, [status |-> status, detail |-> "error"] @@ Ended)
    /\ running' = 0

\* The handler ends with an exception that is no HTTPException: the server
\* answers 500 on its own.
Escape(j) ==
    /\ job' = Set(j, [status |-> 500, escaped |-> TRUE, detail |-> "server"]
                     @@ Ended)
    /\ running' = 0

\* A server that takes requests while its startup event still runs.
Accepting_DuringStartup == TRUE

\* The server takes requests once the application's startup event is over
\* (api.py has no startup event).
Accepting == phase = "serving"

\* An event loop that runs a coroutine although another one has not given
\* the loop back.
LoopFree_Always == TRUE

\* The event loop runs another coroutine only when the one it was running
\* has reached an await or has ended.
LoopFree == running = 0

\* Lines 102-109 (app.py), 55-62 (api.py): a request with a payload of size
\* bytes arrives; the handler validates the name and the stems value, then
\* awaits audio.read().
Request(j, filename, stems, size) ==
    /\ Accepting
    /\ LoopFree
    /\ job[j].pc = "idle"
    /\ \A i \in Jobs : i < j => job[i].pc # "idle"
    /\ IF validate_audio_file(filename) # 0
       THEN job' = Set(j, [status |-> validate_audio_file(filename),
                           detail |-> "name", size |-> size] @@ Ended)
       ELSE IF StemsStatus(stems) # 0
       THEN job' = Set(j, [status |-> StemsStatus(stems),
                           detail |-> "stems", size |-> size] @@ Ended)
       ELSE job' = Set(j, [pc |-> "read", filename |-> filename,
                           size |-> size])
    /\ UNCHANGED <<impl, phase, left, visited, tempDir, running, ws, used, outside>>

\* A request with some payload.
Receive(j, filename, stems) ==
    \E size \in Sizes : Request(j, filename, stems, size)

\* Lines 109-111 (app.py), 62-64 (api.py): the payload is read; the size
\* check; the handler goes on without awaiting again until it returns.
ReadDone(j, size) ==
    /\ LoopFree
    /\ job[j].pc = "read"
    /\ size = job[j].size
    /\ IF SizeStatus(size) # 0
       THEN /\ job' = Set(j, [status |-> SizeStatus(size),
                                 detail |-> "size"] @@ Ended)
            /\ running' = 0
       ELSE /\ job' = Set(j, [pc |-> "alloc", size |-> NoSize])
            /\ running' = j
    /\ UNCHANGED <<impl, phase, left, visited, tempDir, ws, used, outside>>

\* An identifier generator that may repeat an identifier.
uuid4_Repeating == Ids

\* The identifiers not generated so far; identifiers being interchangeable,
\* the least of them stands for any of them.
Fresh == {u \in Ids \ used : \A v \in Ids \ used : u <= v}

\* uuid.uuid4(): a random identifier, one no workspace was given before.
uuid4 == Fresh

\* tempfile.mkdtemp(): a random name that no directory has, and as random as
\* a uuid4: one no directory was given before.
mkdtemp == {u \in Fresh : ~ws[u].exists}

\* temp_dir.mkdir(exist_ok=True): makes the directory, and takes an
\* existing one as it is.
mkdir_exist_ok(u) == IF ws[u].exists THEN ws ELSE [ws EXCEPT ![u] = NewWs]

\* Lines 113-117 (app.py), 67 (api.py): the workspace is made.
Alloc(j) ==
    /\ running = j
    /\ job[j].pc = "alloc"
    /\ tempDir
    /\ \E u \in (IF impl = "app" THEN uuid4 ELSE mkdtemp) :
          /\ ws' = mkdir_exist_ok(u)
          /\ used' = used \cup {u}
          /\ job' = Set(j, [pc |-> "save", wsid |-> u])
    /\ UNCHANGED <<impl, phase, left, visited, tempDir, running, outside>>

\* The directory cannot be made (OSError).  app.py makes it before its try
\* block: the OSError leaves the handler.  api.py makes it inside: except
\* Exception turns it into a 500.
AllocFail(j) ==
    /\ running = j
    /\ job[j].pc = "alloc"
    /\ IF impl = "app" THEN Escape(j) ELSE Raise(j, 500)
    /\ UNCHANGED <<impl, phase, left, visited, tempDir, ws, used, outside>>

\* The workspace of job j.
W(j) == ws[job[j].wsid]

\* Lines 121-126 (app.py), 69-71 (api.py): the upload is written at
\* temp_dir / audio.filename, wherever that is.
Save(j) ==
    /\ running = j
    /\ job[j].pc = "save"
    /\ CanCreate(InputPath(job[j].filename))
    /\ IF Inside(InputPath(job[j].filename))
       THEN /\ ws' = [ws EXCEPT ![job[j].wsid].input = TRUE]
            /\ outside' = outside
       ELSE /\ ws' = ws
            /\ outside' = outside \cup {InputPath(job[j].filename)}
    /\ job' = Set(j, [pc |-> "mkout"])
    /\ UNCHANGED <<impl, phase, left, visited, tempDir, running, used>>

\* Lines 129-130 (app.py), 74-75 (api.py): output/ is made.
MkOutput(j) ==
    /\ running = j
    /\ job[j].pc = "mkout"
    /\ ws' = [ws EXCEPT ![job[j].wsid].output = TRUE]
    /\ job' = Set(j, [pc |-> "spawn"])
    /\ UNCHANGED <<impl, phase, left, visited, tempDir, running, used, outside>>

\* subprocess.run starts the child.
Spawn(j) ==
    /\ running = j
    /\ job[j].pc = "spawn"
    /\ job' = Set(j, [pc |-> "tool", child |-> "running"])
    /\ UNCHANGED <<impl, phase, left, visited, tempDir, running, ws, used, outside>>

\* The steps that do file or process I/O and may raise an OSError: writing
\* the upload, making output/, starting the tool, writing the archive.
IOSteps == {"save", "mkout", "spawn", "zip"}

\* One of them raises: an exception that is neither TimeoutExpired nor
\* HTTPException.
IOFail(j) ==
    /\ running = j
    /\ job[j].pc \in IOSteps
    /\ job' = Set(j, [pc |-> "exc", exc |-> "other", detail |-> "error"])
    /\ UNCHANGED <<impl, phase, left, visited, tempDir, running, ws, used, outside>>

\* Lines 144-159 (app.py), 87-98 (api.py): the child exits by itself with
\* return code rc, leaving a tree under output/.
ToolExit(j, rc, tree) ==
    /\ running = j
    /\ job[j].pc = "tool"
    /\ ws' = [ws EXCEPT ![job[j].wsid].tree = tree]
    /\ IF rc # 0
       THEN job' = Set(j, [pc |-> "exc", exc |-> "http", rc |-> rc,
                           child |-> "exited", detail |-> "tool"])
       ELSE job' = Set(j, [pc |-> "resolve", rc |-> rc, child |-> "exited"])
    /\ UNCHANGED <<impl, phase, left, visited, tempDir, running, used, outside>>

\* timeout=300 passes with the child still running.
ToolTimeout(j, tree) ==
    /\ running = j
    /\ job[j].pc = "tool"
    /\ ws' = [ws EXCEPT ![job[j].wsid].tree = tree]
    /\ job' = Set(j, [pc |-> "kill"])
    /\ UNCHANGED <<impl, phase, left, visited, tempDir, running, used, outside>>

\* subprocess.run kills the child, waits for it, raises TimeoutExpired.
KillChild(j) ==
    /\ running = j
    /\ job[j].pc = "kill"
    /\ job' = Set(j, [pc |-> "exc", exc |-> "timeout", child |-> "exited",
                      detail |-> "timeout"])
    /\ UNCHANGED <<impl, phase, left, visited, tempDir, running, ws, used, outside>>

(* ---------------------------------------------------- resolver, archiver *)

\* file.lower().endswith(('.wav', '.mp3', '.flac'))
AudioSuffixes == { <<".","w","a","v">>, <<".","m","p","3">>, <<".","f","l","a","c">> }

\* A filter that takes every file for an audio file.
IsAudio_AnyName(name) == TRUE

\* app.py line 191: the name ends in an audio suffix, in any case.
IsAudio(name) == \E x \in AudioSuffixes : EndsWith(Lower(name), x)

\* The subdirectories of output/ in a tree.
Subdirs(tree) == {d \in DirNames : tree[d].present}

\* app.py lines 172-185: the directories the handler may take as track_dir.
\* subdirs[0] is the first entry the directory listing gives, whichever that
\* is.  Empty: "No output tracks found".
TrackDirs(tree) ==
    IF tree["base"].present THEN {"base"} ELSE Subdirs(tree)

\* api.py lines 101-105: output/<base_name> or nothing.
ApiTrackDirs(tree) ==
    IF tree["base"].present THEN {"base"} ELSE {}

\* app.py lines 172-185 with base_name = Path(audio.filename).stem.  A stem
\* of ".." makes track_dir output/.., the workspace itself, which always
\* exists; a stem of "." makes it output/ (pathlib drops the "." part).
AppTrack(filename, tree) ==
    IF PathStem(filename) = ParentPart THEN {".."}
    ELSE IF PathStem(filename) = <<".">> THEN {"."}
    ELSE TrackDirs(tree)

\* api.py lines 101-105 with base_name = os.path.splitext(audio.filename)[0],
\* which keeps the directories of the filename: with any, track_dir is not
\* under output/, where the tool writes.
ApiTrack(filename, tree) ==
    IF SlashPositions(filename) = {} THEN ApiTrackDirs(tree) ELSE {}

Resolve(j) ==
    /\ running = j
    /\ job[j].pc = "resolve"
    /\ LET dirs == IF impl = "app" THEN AppTrack(job[j].filename, W(j).tree)
                   ELSE ApiTrack(job[j].filename, W(j).tree)
       IN  IF dirs = {}
           THEN job' = Set(j, [pc |-> "exc", exc |-> "http",
                               detail |-> "tracks"])
           ELSE \E d \in dirs :
                  job' = Set(j, [pc |-> IF impl = "app" THEN "filter" ELSE "zip",
                                 track |-> d])
    /\ UNCHANGED <<impl, phase, left, visited, tempDir, running, ws, used, outside>>

\* f'{base_name}_separated.zip'
ZipName(filename) ==
    PathStem(filename)
    \o <<"_","s","e","p","a","r","a","t","e","d",".","z","i","p">>

\* The files of subdirectory d of output/, their paths starting at prefix.
Under(prefix, d, tree) ==
    {[sub |-> prefix \o <<d>> \o f.sub, name |-> f.name] : f \in tree[d].files}

\* The files below output/, their paths starting at prefix.
UnderOutput(prefix, tree) ==
    UNION {Under(prefix, d, tree) : d \in Subdirs(tree)}

\* The files lying in the workspace directory itself.
TopFiles(w, filename) ==
    (IF w.input THEN {[sub |-> <<>>, name |-> PathName(filename)]} ELSE {})
    \cup (IF w.zip.present THEN {[sub |-> <<>>, name |-> ZipName(filename)]}
          ELSE {})

\* os.walk(track_dir): every file below track_dir, by its path from there.
WalkFiles(w, track, filename) ==
    IF track = ".." THEN TopFiles(w, filename) \cup UnderOutput(<<"output">>, w.tree)
    ELSE IF track = "." THEN UnderOutput(<<>>, w.tree)
    ELSE w.tree[track].files

\* app.py lines 187-192: the files under track_dir with an audio suffix.
AudioFiles(files) == {f \in files : IsAudio(f.name)}

\* app.py lines 187-197.
Filter(j) ==
    /\ running = j
    /\ job[j].pc = "filter"
    /\ LET found == AudioFiles(WalkFiles(W(j), job[j].track, job[j].filename))
       IN  IF found = {}
           THEN job' = Set(j, [pc |-> "exc", exc |-> "http",
                               detail |-> "audio"])
           ELSE job' = Set(j, [pc |-> "zip", audio |-> found])
    /\ UNCHANGED <<impl, phase, left, visited, tempDir, running, ws, used, outside>>

\* app.py lines 203-209, api.py lines 109-114: every file os.walk finds
\* under track_dir goes into the archive.
ZipEntries(files) == files

\* The workspace once zipfile.ZipFile(zip_path, 'w') has made the file.
Opened(w) == [w EXCEPT !.zip = [present |-> TRUE, entries |-> {}]]

\* app.py lines 199-212, api.py lines 107-114: the archive is opened, then
\* track_dir is walked.
Zip(j) ==
    /\ running = j
    /\ job[j].pc = "zip"
    /\ ws' = [ws EXCEPT ![job[j].wsid].zip =
                 [present |-> TRUE,
                  entries |-> ZipEntries(WalkFiles(Opened(W(j)), job[j].track,
                                                   job[j].filename))]]
    /\ job' = Set(j, [pc |-> "ret"])
    /\ UNCHANGED <<impl, phase, left, visited, tempDir, running, used, outside>>

(* ------------------------------------------------------------ reclamation *)

\* A removal that was forgotten: nothing is removed.
rmtree_Forgotten(u) == ws

\* shutil.rmtree(temp_dir)
rmtree(u) == [ws EXCEPT ![u] = NoWs]

\* The status of the HTTPException an except clause of the handler raises.
StatusOf(exc) == IF exc = "timeout" THEN 408 ELSE 500

\* app.py lines 214-222: the archive exists, the response is returned.
\* api.py lines 116-120: the response is returned from inside the with
\* block, whose exit removes the temporary directory.
Return(j) ==
    /\ running = j
    /\ job[j].pc = "ret"
    /\ IF impl = "app"
       THEN /\ IF W(j).zip.present
               THEN job' = Set(j, Returned)
               ELSE job' = Set(j, [pc |-> "exc", exc |-> "http",
                                   detail |-> "zip"])
            /\ running' = IF W(j).zip.present THEN 0 ELSE j
            /\ ws' = ws
       ELSE /\ job' = Set(j, [removals |-> job[j].removals + 1]
                                 @@ Returned)
            /\ running' = 0
            /\ ws' = rmtree(job[j].wsid)
    /\ UNCHANGED <<impl, phase, left, visited, tempDir, used, outside>>

\* api.py: the with block's exit cannot remove the directory; its OSError is
\* caught by except Exception.
ReturnCleanupFail(j) ==
    /\ impl = "api"
    /\ running = j
    /\ job[j].pc = "ret"
    /\ job' = Set(j, [status |-> 500, removals |-> job[j].removals + 1,
                      detail |-> "error"] @@ Ended)
    /\ running' = 0
    /\ UNCHANGED <<impl, phase, left, visited, tempDir, ws, used, outside>>

\* app.py lines 224-238: the except clause removes the workspace and raises
\* the HTTPException.  api.py lines 122-127: the with block's exit removed
\* it on the way to the except clause.
ExceptCleanup(j) ==
    /\ running = j
    /\ job[j].pc = "exc"
    /\ ws' = IF W(j).exists THEN rmtree(job[j].wsid) ELSE ws
    /\ job' = Set(j, [status |-> StatusOf(job[j].exc),
                      removals |-> job[j].removals
                                   + (IF W(j).exists THEN 1 ELSE 0)] @@ Ended)
    /\ running' = 0
    /\ UNCHANGED <<impl, phase, left, visited, tempDir, used, outside>>

\* The removal raises.  app.py: the OSError leaves the except clause in place
\* of the HTTPException.  api.py: the OSError raised by the with block's exit
\* is caught by except Exception.
ExceptCleanupFail(j) ==
    /\ running = j
    /\ job[j].pc = "exc"
    /\ W(j).exists
    /\ job' = Set(j, [status |-> 500, escaped |-> (impl = "app"),
                      removals |-> job[j].removals + 1,
                      detail |-> IF impl = "app" THEN "server" ELSE "error"]
                     @@ Ended)
    /\ running' = 0
    /\ UNCHANGED <<impl, phase, left, visited, tempDir, ws, used, outside>>

(* --------------------------------------------------------------- delivery *)

\* The cleanup task CustomFileResponse.__call__ creates in its finally.
Scheduled == IF impl = "app" THEN "sleeping" ELSE "none"

\* A response that creates the cleanup task after the await, outside any
\* finally: only a transmission that went through gets one.
Finally_OnlyWhenSent(j, sent) ==
    [sent |-> sent,
     task |-> IF sent = "full" THEN Scheduled ELSE "none",
     tasks |-> job[j].tasks + (IF sent = "full" /\ impl = "app" THEN 1 ELSE 0)]

\* app.py lines 69-75: however super().__call__ ended, the finally clause
\* creates the cleanup task (api.py's FileResponse creates none).
Finally(j, sent) ==
    [sent |-> sent,
     task |-> Scheduled,
     tasks |-> job[j].tasks + (IF impl = "app" THEN 1 ELSE 0)]

\* FileResponse.__call__ starts: the file is looked up, the headers go out.
\* A missing file ends the response before a byte of the body is sent.
StartSend(j) ==
    /\ LoopFree
    /\ job[j].pc = "respond"
    /\ IF W(j).exists /\ W(j).zip.present
       THEN job' = Set(j, [pc |-> "sending", status |-> 200])
       ELSE job' = Set(j, [status |-> 500, escaped |-> TRUE,
                           detail |-> "server"]
                          @@ Finally(j, "failed") @@ Ended)
    /\ UNCHANGED <<impl, phase, left, visited, tempDir, running, ws, used, outside>>

\* The body has been sent whole.
SendDone(j) ==
    /\ LoopFree
    /\ job[j].pc = "sending"
    /\ job' = Set(j, Finally(j, "full") @@ Ended)
    /\ UNCHANGED <<impl, phase, left, visited, tempDir, running, ws, used, outside>>

\* Sending fails partway (the client went away).
SendFail(j) ==
    /\ LoopFree
    /\ job[j].pc = "sending"
    /\ job' = Set(j, Finally(j, "partial") @@ Ended)
    /\ UNCHANGED <<impl, phase, left, visited, tempDir, running, ws, used, outside>>

\* Whether TEMP_DIR has no entry.
TempDirEmpty ==
    /\ \A e \in Leftovers : left[e].kind = "none"
    /\ \A u \in Ids : ~ws[u].exists
    /\ \A loc \in outside : loc.abs \/ loc.up # 1

\* app.py lines 50-60, file_path being the workspace directory u: the pair of
\* ws and tempDir the task leaves.  os.remove of a directory raises, the
\* except prints and nothing is removed; with the path gone the parent,
\* TEMP_DIR, is removed when it is empty.
cleanup_file(u) ==
    IF ws[u].exists
    THEN <<ws, tempDir>>
    ELSE IF tempDir /\ TempDirEmpty THEN <<ws, FALSE>> ELSE <<ws, tempDir>>

\* app.py lines 47-60: the task wakes from asyncio.sleep(60) and runs.
CleanupFile(j) ==
    /\ LoopFree
    /\ job[j].task = "sleeping"
    /\ ws' = cleanup_file(job[j].wsid)[1]
    /\ tempDir' = cleanup_file(job[j].wsid)[2]
    /\ job' = Set(j, [task |-> "done"])
    /\ UNCHANGED <<impl, phase, left, visited, running, used, outside>>

(* ---------------------------------------------------------- specification *)

separate_audio(j) ==
    \/ \E f \in FileNames, st \in StemsValues : Receive(j, f, st)
    \/ \E size \in Sizes : ReadDone(j, size)
    \/ Alloc(j)
    \/ AllocFail(j)
    \/ Save(j)
    \/ MkOutput(j)
    \/ Spawn(j)
    \/ IOFail(j)
    \/ \E t \in ToolOutputs : ToolExit(j, 0, t)
    \/ \E t \in PartialOutputs : ToolExit(j, 1, t)
    \/ \E t \in PartialOutputs : ToolTimeout(j, t)
    \/ KillChild(j)
    \/ Resolve(j)
    \/ Filter(j)
    \/ Zip(j)
    \/ Return(j)
    \/ ReturnCleanupFail(j)
    \/ ExceptCleanup(j)
    \/ ExceptCleanupFail(j)

Deliver(j) ==
    \/ StartSend(j)
    \/ SendDone(j)
    \/ SendFail(j)
    \/ CleanupFile(j)

Next ==
    \/ startup_cleanup
    \/ \E j \in Jobs : separate_audio(j)
    \/ \E j \in Jobs : Deliver(j)

Spec == Init /\ [][Next]_vars

(* ------------------------------------------------------------- properties *)

\* Job j has a workspace identifier.
HasWs(j) == job[j].wsid # 0

\* Job j is in flight: its request is being handled or delivered, or its
\* deferred cleanup is still to run.
InFlight(j) == job[j].pc \notin {"idle", "done"} \/ job[j].task = "sleeping"

\* A step of job j: of its handler, its response or its cleanup task.
JobStep(j) == separate_audio(j) \/ Deliver(j)

\* C1: in app.py, once a request that allocated a workspace has completed
\* and no cleanup of it is pending any more, its workspace directory no
\* longer exists.  Stated for the requests whose removal did not raise, the
\* success path among them.
C1_WorkspaceGoneAfterCleanup ==
    \A j \in Jobs :
        ( /\ impl = "app"
          /\ HasWs(j)
          /\ job[j].pc = "done"
          /\ job[j].task # "sleeping"
          /\ ~job[j].escaped )
        => ~W(j).exists

\* C2: while a success response is still to be transmitted or is being
\* transmitted, the archive and its workspace exist (app.py and api.py).
C2_WorkspaceOutlivesTransmission ==
    \A j \in Jobs :
        job[j].pc \in {"respond", "sending"}
        => W(j).exists /\ W(j).zip.present

HasAllowedExtension(filename) ==
    /\ DotPositions(filename) # {}
    /\ Lower(LastDotPart(filename)) \in ALLOWED_EXTENSIONS

\* C4: a request with no filename, with no allowed extension (a name without
\* any extension included) or with stems outside 2, 4, 5 is answered 400 and
\* leaves every workspace as it was.
C4_BadRequestRejected ==
    [][ \A j \in Jobs, f \in FileNames, st \in StemsValues :
          ( /\ Receive(j, f, st)
            /\ (Len(f) = 0 \/ ~HasAllowedExtension(f) \/ st \notin {2, 4, 5}) )
          => ( /\ job'[j].pc = "done"
               /\ job'[j].status = 400
               /\ job'[j].wsid = 0
               /\ ws' = ws ) ]_vars

\* C5: a payload larger than MAX_FILE_SIZE is answered 413 with no workspace
\* made and no tool started; a payload of exactly MAX_FILE_SIZE passes the
\* size check; a request answered 413 never had a workspace or a child.
C5_OversizeRejectedEarly ==
    [][ \A j \in Jobs :
          /\ \A size \in Sizes :
               ReadDone(j, size) =>
                 /\ size > 25 * 1024 * 1024 =>
                      ( /\ job'[j].pc = "done"
                        /\ job'[j].status = 413
                        /\ job'[j].wsid = 0
                        /\ job'[j].child = "none"
                        /\ ws' = ws )
                 /\ size = 25 * 1024 * 1024 =>
                      ( /\ job'[j].pc = "alloc"
                        /\ job'[j].status = 0 )
          /\ job'[j].status = 413 =>
               (job'[j].wsid = 0 /\ job'[j].child = "none") ]_vars

\* C5 witness: a request answered 413, with no workspace and no child.
C5_Witness ==
    \E j \in Jobs :
        /\ job[j].pc = "done"
        /\ job[j].status = 413
        /\ job[j].wsid = 0
        /\ job[j].child = "none"

\* C6: in app.py a request whose tool ran over the deadline has its child
\* exited before anything else, runs no resolver or archiver step, and ends
\* answered 408 with its workspace removed.
C6_TimeoutRemovesAndAnswers408 ==
    \A j \in Jobs :
        (impl = "app" /\ job[j].exc = "timeout")
        => /\ job[j].child = "exited"
           /\ job[j].track = "none"
           /\ W(j).exists => ~W(j).zip.present
           /\ job[j].pc = "done" =>
                (job[j].status = 408 /\ ~W(j).exists)

\* C7: in app.py, with output/<base-name> absent, a track directory is taken
\* only when output/ holds exactly one subdirectory; with none or several the
\* job fails and no archive is made.
C7_FallbackOnlyForSoleSubdirectory ==
    \A j \in Jobs :
        ( /\ impl = "app"
          /\ HasWs(j)
          /\ job[j].rc = 0
          /\ PathStem(job[j].filename) \notin {ParentPart, <<".">>}
          /\ ~W(j).tree["base"].present
          /\ Cardinality(Subdirs(W(j).tree)) # 1 )
        => /\ job[j].track = "none"
           /\ ~W(j).zip.present

\* C8: two requests in flight never have the same workspace, and the
\* workspace of a request in flight is changed by that request's own steps
\* only.
C8_WorkspacesIsolated ==
    [][ /\ \A i, j \in Jobs :
             (i # j /\ InFlight(i) /\ InFlight(j) /\ HasWs(i) /\ HasWs(j))
             => job[i].wsid # job[j].wsid
        /\ \A j \in Jobs :
             (InFlight(j) /\ HasWs(j) /\ ws'[job[j].wsid] # ws[job[j].wsid])
             => JobStep(j) ]_vars

\* C8 witness: two requests in flight, each with its workspace on disk, one
\* of them being delivered.
C8_Witness ==
    \E i, j \in Jobs :
        /\ i # j
        /\ job[i].pc = "sending"
        /\ W(i).exists
        /\ job[j].pc = "exc"
        /\ W(j).exists

\* C9: once the startup sweep of app.py is over, no directory older than the
\* threshold whose removal does not fail is left under TEMP_DIR.
C9_SweepRemovesOldDirectories ==
    (impl = "app" /\ phase = "serving")
    => \A e \in Leftovers :
          ~( /\ left[e].kind = "dir"
             /\ left[e].age > 3600
             /\ ~left[e].stuck )

\* C10: in app.py every request ends with the archive response or with an
\* HTTPException of a defined status; no other exception leaves the handler.
C10_OnlyHttpExceptionsEscape ==
    \A j \in Jobs :
        (impl = "app" /\ job[j].pc = "done")
        => /\ ~job[j].escaped
           /\ job[j].status \in {200, 400, 408, 413, 500}

\* Where track_dir lies in the workspace.
TrackPrefix(track) ==
    IF track = ".." THEN <<>>
    ELSE IF track = "." THEN <<"output">>
    ELSE <<"output", track>>

\* C11: when the archive has been written (app.py and api.py), every file
\* the tool left under the track directory is an entry of it under its path
\* from the track directory, no entry's path has a parent-directory part,
\* and neither the uploaded input file nor the archive itself is an entry.
C11_ArchiveHoldsTrackFilesOnly ==
    \A j \in Jobs :
        (job[j].pc = "ret" /\ W(j).exists /\ W(j).zip.present)
        => LET w == W(j)
               toolFiles == WalkFiles([w EXCEPT !.input = FALSE, !.zip = NoZip],
                                      job[j].track, job[j].filename)
           IN  /\ toolFiles \subseteq w.zip.entries
               /\ \A e \in w.zip.entries :
                    /\ e.name # ParentPart
                    /\ \A i \in 1..Len(e.sub) : e.sub[i] # ".."
                    /\ (TrackPrefix(job[j].track) \o e.sub = <<>>)
                       => e.name \notin {PathName(job[j].filename),
                                         ZipName(job[j].filename)}

\* C12: in app.py a request that reached an except clause is answered with
\* its primary error (408 after a timeout, the HTTPException of status 500
\* otherwise) whether or not removing the workspace succeeds, and the
\* deferred cleanup changes neither the status nor what was sent.
C12_RemovalFailureNeverMasksOutcome ==
    [][ \A j \in Jobs :
          impl = "app" =>
            /\ (job[j].pc = "exc" /\ job'[j].pc = "done") =>
                 /\ ~job'[j].escaped
                 /\ job'[j].status = IF job[j].exc = "timeout" THEN 408 ELSE 500
            /\ CleanupFile(j) =>
                 /\ job'[j].status = job[j].status
                 /\ job'[j].sent = job[j].sent ]_vars

\* C13: in app.py, for a request that allocated a workspace, reclamation is
\* attempted at most once at any time and exactly once when the request is
\* over: one shutil.rmtree call and no cleanup task on an error path, one
\* cleanup task and no shutil.rmtree call on the success path, the task
\* being created when the transmission has ended, whole or partway.
C13_ReclamationAttemptedOnce ==
    \A j \in Jobs :
        (impl = "app" /\ HasWs(j))
        => /\ job[j].removals + job[j].tasks <= 1
           /\ job[j].tasks = 1 <=> job[j].sent \in {"full", "partial"}
           /\ job[j].task # "none" => job[j].tasks = 1
           /\ job[j].pc = "done" =>
                IF job[j].exc # "none"
                THEN job[j].removals = 1 /\ job[j].tasks = 0
                ELSE job[j].removals = 0 /\ job[j].tasks = 1

\* C13 witness: a request of app.py whose transmission failed partway, with
\* its one cleanup task created and no synchronous removal made.
C13_Witness ==
    \E j \in Jobs :
        /\ impl = "app"
        /\ HasWs(j)
        /\ job[j].pc = "done"
        /\ job[j].sent = "partial"
        /\ job[j].tasks = 1
        /\ job[j].removals = 0

\* C14: in app.py the handler returns the archive response only after the
\* tool exited with status zero, a track directory was taken, an audio file
\* was found under it and the archive exists; a request whose tool exited
\* with a non-zero status ends with the HTTPException of status 500 that
\* carries the tool's stderr, and with no archive; and a request that is over, with no cleanup pending and no
\* removal that raised, has been reclaimed: its workspace is gone.
C14_LifecycleInOrder ==
    [][ \A j \in Jobs :
          impl = "app" =>
            /\ (job[j].pc # "respond" /\ job'[j].pc = "respond") =>
                 /\ job[j].rc = 0
                 /\ job[j].track # "none"
                 /\ job[j].audio # {}
                 /\ ws'[job'[j].wsid].zip.present
            /\ (job[j].rc > 0 /\ job'[j].pc = "done") =>
                 /\ job'[j].status = 500
                 /\ job'[j].detail = "tool"
                 /\ ~ws[job[j].wsid].zip.present
            /\ ( /\ HasWs(j)
                 /\ job'[j].pc = "done"
                 /\ job'[j].task # "sleeping"
                 /\ ~job'[j].escaped ) =>
                 ~ws'[job'[j].wsid].exists ]_vars

\* A file whose name ends, in any case, in .wav, .mp3 or .flac.
HasAudioName(f) ==
    \/ EndsWith(Lower(f.name), <<".","w","a","v">>)
    \/ EndsWith(Lower(f.name), <<".","m","p","3">>)
    \/ EndsWith(Lower(f.name), <<".","f","l","a","c">>)

\* The handler of job j has looked for audio files under its track directory
\* and found none.
NoAudioFound(j) ==
    /\ job[j].pc = "exc"
    /\ job[j].detail = "audio"

C16_ArchiveIsTrackSet ==
    \A j \in Jobs :
        (impl = "app" /\ job[j].pc = "ret" /\ W(j).zip.present)
        => W(j).zip.entries = job[j].audio

DisallowedExtension(filename) ==
    /\ DotPositions(filename) # {}
    /\ ~HasAllowedExtension(filename)

\* C18: a request with no filename, with a disallowed extension or with
\* stems outside 2, 4, 5 is answered 400 whatever the size of its payload,
\* with the detail of the name check when the name fails (whatever the
\* stems value is); a request is answered 413 only from the size check,
\* which only a request that passed the name and stems checks reaches.
C18_FirstFailingCheckDecides ==
    [][ \A j \in Jobs :
          /\ (job[j].pc = "idle" /\ job'[j].pc # "idle") =>
             \A size \in {job'[j].size}, f \in FileNames, st \in StemsValues :
               Request(j, f, st, size) =>
                 /\ (Len(f) = 0 \/ DisallowedExtension(f) \/ st \notin {2, 4, 5})
                    => ( /\ job'[j].pc = "done"
                         /\ job'[j].status = 400
                         /\ job'[j].size = size )
                 /\ (Len(f) = 0 \/ DisallowedExtension(f))
                    => job'[j].detail = "name"
                 /\ job'[j].pc = "read"
                    => ( /\ Len(f) > 0
                         /\ ~DisallowedExtension(f)
                         /\ st \in {2, 4, 5} )
          /\ (job[j].status # 413 /\ job'[j].status = 413)
             => ( /\ job[j].pc = "read"
                  /\ Len(job[j].filename) > 0
                  /\ ~DisallowedExtension(job[j].filename)
                  /\ job[j].size > 25 * 1024 * 1024 ) ]_vars

\* C18 witness: a request with an oversized payload answered 400.
C18_Witness ==
    \E j \in Jobs :
        /\ job[j].pc = "done"
        /\ job[j].status = 400
        /\ job[j].detail = "stems"
        /\ job[j].size > 25 * 1024 * 1024

\* C19: in app.py every file a handler makes lies inside its workspace.
C19_HandlerWritesInsideWorkspace ==
    impl = "app" => outside = {}

\* Job j is between the size check and the end of its handler.
InSection(j) ==
    job[j].pc \in {"alloc", "save", "mkout", "spawn", "tool", "kill",
                   "resolve", "filter", "zip", "ret", "exc"}

\* C20: in app.py at most one request is between allocation and the end of
\* its handler, and while one is (its tool running included) every step is
\* a step of its handler: no other request's handler or response moves, no
\* cleanup task runs, no other workspace changes.
C20_HandlerSectionAtomic ==
    [][ \A j \in Jobs :
          (impl = "app" /\ InSection(j)) =>
            /\ \A i \in Jobs \ {j} : ~InSection(i)
            /\ \A i \in Jobs \ {j} : job'[i] = job[i]
            /\ \A u \in Ids : u # job'[j].wsid => ws'[u] = ws[u]
            /\ tempDir' = tempDir ]_vars

\* C20 witness: in app.py the tool of one request runs while the cleanup
\* task of another is pending.
C20_Witness ==
    \E i, j \in Jobs :
        /\ impl = "app"
        /\ i # j
        /\ job[i].pc = "tool"
        /\ job[i].child = "running"
        /\ job[j].task = "sleeping"

====
